---- MODULE Spec2Model ----
(***************************************************************************)
(* Function decorators of underbar.js: _.once, _.memoize, _.delay and      *)
(* _.throttle, together with the host timer facility (setTimeout,          *)
(* clearTimeout, Date.now) they run on.                                    *)
(*                                                                         *)
(* JavaScript values are written as strings: "undefined", "0", "r1", ...   *)
(* The wrapped function f is arbitrary: each invocation either returns any *)
(* value of RetVals or throws.                                             *)
(***************************************************************************)
EXTENDS Integers, Sequences, FiniteSets

\* ---------------------------------------------------------------- bounds
MaxCalls == 3      \* calls made to one wrapper
MaxDelayCalls == 2 \* calls made to _.delay
MaxClock == 4      \* last value of the clock
MaxWait  == 2      \* largest wait, in clock units

\* ---------------------------------------------------------------- values
Undefined == "undefined"

\* Values for which the language's ToBoolean gives false.
Falsy == {"undefined", "0", "false"}

Truthy(v) == v \notin Falsy

\* What f may return on one invocation.
RetVals == {"undefined", "0", "r1"}

\* One invocation of f: it returns a value or it throws.
FOutcomes ==
  [kind : {"return"}, val : RetVals] \cup [kind : {"throw"}, val : {Undefined}]

\* Argument lists handed to the wrappers.
ArgLists == {<< >>, <<"a">>, <<"b">>, <<"a", "b">>}

VARIABLES
  \* _.once
  alreadyCalled,   \* var alreadyCalled
  result,          \* var result
  onceCalls,       \* history: the calls made to the wrapper, in order
  \* _.memoize
  results,         \* var results: own properties of the table object
  memoCalls,       \* history: the calls made to the wrapper, in order
  \* host clock, shared by _.delay and _.throttle
  clock,           \* Date.now()
  \* _.delay
  dTimers,         \* timers that _.delay has scheduled and that have not fired
  delayCalls,      \* history: the calls made to _.delay, in order
  delayRuns,       \* history: the invocations of func made by the timers
  \* _.throttle
  wait,            \* the wait argument of _.throttle
  lastTrigger,     \* var lastTrigger
  timer,           \* var timer: the handle of the last timer set
  tresults,        \* var results
  tTimers,         \* the host's pending timers set by this wrapper
  nextHandle,      \* the handle the next setTimeout returns
  cancelled,       \* history: number of pending timers cleared
  tCalls,          \* history: the calls made to the wrapper, in order
  tExec            \* history: the executions of func, in order

onceVars  == <<alreadyCalled, result, onceCalls>>
memoVars  == <<results, memoCalls>>
delayVars == <<dTimers, delayCalls, delayRuns>>
thrVars   == <<wait, lastTrigger, timer, tresults, tTimers, nextHandle,
               cancelled, tCalls, tExec>>
vars == <<onceVars, memoVars, clock, delayVars, thrVars>>

\* ------------------------------------------------------------------ once
\* State of the closure right after _.once(func) returns.
OnceInit ==
  /\ alreadyCalled = FALSE
  /\ result = Undefined
  /\ onceCalls = << >>

\* The record of one call of the wrapper: its arguments, whether func was
\* applied, to what, how func ended and with what, and how the call ended
\* and with what.
OnceRec(args, invoked, fkind, fval, kind, val) ==
  [args |-> args, invoked |-> invoked,
   fargs |-> IF invoked THEN args ELSE << >>,
   fkind |-> fkind, fval |-> fval, kind |-> kind, val |-> val]

\* A slip: the flag is set before func is applied, so a throwing func
\* leaves the wrapper marked as called.
OnceCallFlagFirst(args) ==
  /\ Len(onceCalls) < MaxCalls
  /\ IF ~alreadyCalled
       THEN \E o \in FOutcomes :
              /\ alreadyCalled' = TRUE
              /\ result' = IF o.kind = "return" THEN o.val ELSE result
              /\ onceCalls' = Append(onceCalls,
                   OnceRec(args, TRUE, o.kind, o.val, o.kind,
                           IF o.kind = "return" THEN o.val ELSE Undefined))
       ELSE /\ UNCHANGED <<alreadyCalled, result>>
            /\ onceCalls' = Append(onceCalls,
                 OnceRec(args, FALSE, "none", Undefined, "return", result))
  /\ UNCHANGED <<memoVars, clock, delayVars, thrVars>>

\* A slip: the flag is never set, so every call applies func.
OnceCallNoFlag(args) ==
  /\ Len(onceCalls) < MaxCalls
  /\ \E o \in FOutcomes :
       /\ alreadyCalled' = alreadyCalled
       /\ result' = IF o.kind = "return" THEN o.val ELSE result
       /\ onceCalls' = Append(onceCalls,
            OnceRec(args, TRUE, o.kind, o.val, o.kind,
                    IF o.kind = "return" THEN o.val ELSE Undefined))
  /\ UNCHANGED <<memoVars, clock, delayVars, thrVars>>

\* One call of the function _.once returned, with argument list args.
\* A throw of func leaves the assignment to result and the one to
\* alreadyCalled undone and reaches the caller.
OnceCall(args) ==
  /\ Len(onceCalls) < MaxCalls
  /\ IF ~alreadyCalled
       THEN \E o \in FOutcomes :
              IF o.kind = "return"
                THEN /\ result' = o.val
                     /\ alreadyCalled' = TRUE
                     /\ onceCalls' = Append(onceCalls,
                          OnceRec(args, TRUE, "return", o.val,
                                  "return", result'))
                ELSE /\ UNCHANGED <<alreadyCalled, result>>
                     /\ onceCalls' = Append(onceCalls,
                          OnceRec(args, TRUE, "throw", Undefined,
                                  "throw", Undefined))
       ELSE /\ UNCHANGED <<alreadyCalled, result>>
            /\ onceCalls' = Append(onceCalls,
                 OnceRec(args, FALSE, "none", Undefined, "return", result))
  /\ UNCHANGED <<memoVars, clock, delayVars, thrVars>>

NextOnce == \E args \in ArgLists : OnceCall(args)

\* --------------------------------------------------------------- memoize
\* The single arguments handed to the memoized function: the number 1, the
\* string '1', the string 'a' and the string 'toString'.
MemoArgs == {"num:1", "str:1", "str:a", "str:toString"}

\* results[arguments[0]]: the argument is converted to a property key, its
\* string form.
ToKey(a) ==
  CASE a = "num:1" -> "1"
    [] a = "str:1" -> "1"
    [] a = "str:a" -> "a"
    [] a = "str:toString" -> "toString"

\* var results = {}: an object literal inherits the properties of
\* Object.prototype; a read of such a key gives the inherited function.
ProtoKeys == {"toString"}

Builtin == "builtin function"

\* results[key], read.
Get(tbl, key) ==
  IF key \in DOMAIN tbl THEN tbl[key]
  ELSE IF key \in ProtoKeys THEN Builtin
  ELSE Undefined

\* results[key] = v
Put(tbl, key, v) ==
  [k \in (DOMAIN tbl) \cup {key} |-> IF k = key THEN v ELSE tbl[k]]

\* A different test: the key is an own property of the table.
MemoCachedByPresence(tbl, key) == key \in DOMAIN tbl

\* The test of the wrapper, negated: !results[arguments[0]] is false.
MemoCached(tbl, key) == Truthy(Get(tbl, key))

\* State of the closure right after _.memoize(func) returns.
MemoInit ==
  /\ results = [k \in {} |-> Undefined]
  /\ memoCalls = << >>

\* One call of the function _.memoize returned, with first argument a.
MemoCall(a) ==
  /\ Len(memoCalls) < MaxCalls
  /\ LET key == ToKey(a) IN
       IF ~MemoCached(results, key)
         THEN \E o \in FOutcomes :
                IF o.kind = "return"
                  THEN /\ results' = Put(results, key, o.val)
                       /\ memoCalls' = Append(memoCalls,
                            [arg |-> a, key |-> key, invoked |-> TRUE,
                             had |-> key \in DOMAIN results,
                             fkind |-> "return", fval |-> o.val,
                             kind |-> "return",
                             val |-> Get(Put(results, key, o.val), key)])
                  ELSE /\ UNCHANGED results
                       /\ memoCalls' = Append(memoCalls,
                            [arg |-> a, key |-> key, invoked |-> TRUE,
                             had |-> key \in DOMAIN results,
                             fkind |-> "throw", fval |-> Undefined,
                             kind |-> "throw", val |-> Undefined])
         ELSE /\ UNCHANGED results
              /\ memoCalls' = Append(memoCalls,
                   [arg |-> a, key |-> key, invoked |-> FALSE,
                    had |-> key \in DOMAIN results,
                    fkind |-> "none", fval |-> Undefined,
                    kind |-> "return", val |-> Get(results, key)])
  /\ UNCHANGED <<onceVars, clock, delayVars, thrVars>>

NextMemo == \E a \in MemoArgs : MemoCall(a)

\* ------------------------------------------------------------ host clock
\* Time passes between two steps of the program.
Tick ==
  /\ clock < MaxClock
  /\ clock' = clock + 1
  /\ UNCHANGED <<onceVars, memoVars, delayVars, thrVars>>

\* ----------------------------------------------------------------- delay
\* _.identity
Identity(val) == val

\* _.map(collection, iterator) for iterator = item => item. _.each walks the
\* keys of the arguments object in index order and _.map pushes each result.
MapIdentity(collection) ==
  [i \in 1..Len(collection) |-> Identity(collection[i])]

\* Array.prototype.slice(begin)
Slice(array, begin) == SubSeq(array, begin + 1, Len(array))

\* A slip: only func is dropped, so wait is handed to func as well.
DelayArgsFromOne(arguments) == Slice(MapIdentity(arguments), 1)

\* var args = _.map(arguments, item => item).slice(2)
DelayArgs(arguments) == Slice(MapIdentity(arguments), 2)

DelayInit ==
  /\ dTimers = {}
  /\ delayCalls = << >>
  /\ delayRuns = << >>

\* _.delay(func, w, ...args): sets one timer and returns. The handle that
\* setTimeout returns is dropped.
DelayCall(w, args) ==
  /\ Len(delayCalls) < MaxDelayCalls
  /\ delayCalls' = Append(delayCalls, [at |-> clock, wait |-> w, args |-> args])
  /\ dTimers' = dTimers \cup
       {[id |-> Len(delayCalls) + 1, due |-> clock + w,
         args |-> DelayArgs(<<"func", "wait">> \o args)]}
  /\ UNCHANGED <<delayRuns, clock, onceVars, memoVars, thrVars>>

\* The host runs the callback of a timer that is due: func.apply(this, args).
\* What func returns or throws reaches no caller.
DelayFire(t) ==
  /\ t \in dTimers
  /\ clock >= t.due
  /\ dTimers' = dTimers \ {t}
  /\ delayRuns' = Append(delayRuns,
       [id |-> t.id, at |-> clock, args |-> t.args])
  /\ UNCHANGED <<delayCalls, clock, onceVars, memoVars, thrVars>>

\* The argument lists handed to _.delay after func and wait.
DelayArgLists == {<< >>, <<"a", "b">>}

NextDelay ==
  \/ \E w \in 0..MaxWait : \E args \in DelayArgLists : DelayCall(w, args)
  \/ \E t \in dTimers : DelayFire(t)
  \/ Tick

\* -------------------------------------------------------------- throttle
\* var lastTrigger; before the first assignment
NoTime == -1

\* var timer; before the first assignment
NoHandle == 0

\* ToBoolean(lastTrigger): undefined and the number 0 are false.
TruthyTime(t) == t # NoTime /\ t # 0

\* clearTimeout(h): a handle that is unset or whose timer has fired clears
\* nothing.
ClearTimeout(timers, h) == {t \in timers : t.h # h}

\* A slip: the previous timer is left pending.
ScheduleNoClear(timers, h, new) == timers \cup {new}

\* clearTimeout(timer); timer = setTimeout(..., wait)
Schedule(timers, h, new) == ClearTimeout(timers, h) \cup {new}

\* The argument list the host hands to a timer callback: none. Inside the
\* callback (a function expression), arguments names this list.
CallbackArguments == << >>

\* State of the closure right after _.throttle(func, wait) returns.
ThrottleInit ==
  /\ wait \in 1..MaxWait
  /\ lastTrigger = NoTime
  /\ timer = NoHandle
  /\ tresults = Undefined
  /\ tTimers = {}
  /\ nextHandle = 1
  /\ cancelled = 0
  /\ tCalls = << >>
  /\ tExec = << >>

\* One call of the function _.throttle returned, with argument list args.
\* The function has no return statement.
ThrottleCall(args) ==
  /\ Len(tCalls) < MaxCalls
  /\ LET now == clock IN
       IF TruthyTime(lastTrigger) /\ now < lastTrigger + wait
         THEN /\ tTimers' = Schedule(tTimers, timer,
                   [h |-> nextHandle, due |-> clock + wait, now |-> now,
                    by |-> Len(tCalls) + 1])
              /\ timer' = nextHandle
              /\ nextHandle' = nextHandle + 1
              /\ cancelled' = cancelled
                   + Cardinality(tTimers \ ClearTimeout(tTimers, timer))
              /\ tCalls' = Append(tCalls,
                   [at |-> now, args |-> args, executed |-> FALSE,
                    fkind |-> "none", fval |-> Undefined,
                    kind |-> "return", val |-> Undefined])
              /\ UNCHANGED <<lastTrigger, tresults, tExec>>
         ELSE /\ lastTrigger' = now
              /\ \E o \in FOutcomes :
                   /\ tresults' = IF o.kind = "return" THEN o.val ELSE tresults
                   /\ tExec' = Append(tExec,
                        [at |-> clock, args |-> args, how |-> "immediate",
                         call |-> Len(tCalls) + 1])
                   /\ tCalls' = Append(tCalls,
                        [at |-> now, args |-> args, executed |-> TRUE,
                         fkind |-> o.kind, fval |-> o.val,
                         kind |-> o.kind, val |-> Undefined])
              /\ UNCHANGED <<timer, tTimers, nextHandle, cancelled>>
  /\ UNCHANGED <<wait, clock, onceVars, memoVars, delayVars>>

\* The host runs the callback of a timer that is due:
\* lastTrigger = now; results = func.apply(this, arguments).
ThrottleFire(t) ==
  /\ t \in tTimers
  /\ clock >= t.due
  /\ tTimers' = tTimers \ {t}
  /\ lastTrigger' = t.now
  /\ \E o \in FOutcomes :
       tresults' = IF o.kind = "return" THEN o.val ELSE tresults
  /\ tExec' = Append(tExec,
       [at |-> clock, args |-> CallbackArguments, how |-> "trailing",
        call |-> t.by])
  /\ UNCHANGED <<wait, timer, nextHandle, cancelled, tCalls, clock,
                 onceVars, memoVars, delayVars>>

\* The argument lists handed to the throttled function.
ThrottleArgLists == {<< >>, <<"a">>, <<"b">>}

NextThrottle ==
  \/ \E args \in ThrottleArgLists : ThrottleCall(args)
  \/ \E t \in tTimers : ThrottleFire(t)
  \/ Tick

\* -------------------------------------------------------- specifications
Init ==
  /\ OnceInit
  /\ MemoInit
  /\ clock = 0
  /\ DelayInit
  /\ ThrottleInit

\* The same, under a clock that counts from a positive time.
InitWall ==
  /\ OnceInit
  /\ MemoInit
  /\ clock = 1
  /\ DelayInit
  /\ ThrottleInit

SpecOnce == Init /\ [][NextOnce]_vars

SpecMemo == Init /\ [][NextMemo]_vars

SpecDelay == Init /\ [][NextDelay]_vars

SpecThrottle == Init /\ [][NextThrottle]_vars

SpecThrottleWall == InitWall /\ [][NextThrottle]_vars

\* ================================================================ claims

\* ---- _.once
NoOnceThrow == \A i \in 1..Len(onceCalls) : onceCalls[i].fkind # "throw"

C5Inv ==
  NoOnceThrow =>
    \A i \in 1..Len(onceCalls) :
      /\ onceCalls[i].invoked <=> (i = 1)
      /\ onceCalls[1].fargs = onceCalls[1].args
      /\ onceCalls[i].kind = "return"
      /\ onceCalls[i].val = onceCalls[1].fval

\* C5: when func completes normally, func is applied exactly once over any
\* number of calls of the wrapper, on the first call and with the first
\* call's arguments; every call returns the value func returned on that
\* first call; alreadyCalled, once true, stays true.
C5Once == [](C5Inv) /\ [][alreadyCalled => alreadyCalled']_vars

\* Three calls, none of which threw, the second with other arguments than
\* the first.
C5Witness ==
  /\ Len(onceCalls) >= 3
  /\ NoOnceThrow
  /\ onceCalls[1].args # onceCalls[2].args
  /\ onceCalls[1].fval = "r1"
  /\ alreadyCalled

\* C6: a throw of func reaches the caller of that call and leaves
\* alreadyCalled false and result unset, so the next call applies func
\* again; only a value func returned is cached.
C6OnceThrow ==
  /\ \A i \in 1..Len(onceCalls) :
       /\ onceCalls[i].fkind = "throw" => onceCalls[i].kind = "throw"
       /\ (\A j \in 1..(i - 1) : onceCalls[j].fkind = "throw")
            => onceCalls[i].invoked
  /\ (\A i \in 1..Len(onceCalls) : onceCalls[i].fkind = "throw")
       => alreadyCalled = FALSE /\ result = Undefined
  /\ alreadyCalled <=>
       \E i \in 1..Len(onceCalls) : onceCalls[i].fkind = "return"
  /\ \A i \in 1..Len(onceCalls) :
       onceCalls[i].fkind = "return" => result = onceCalls[i].fval

\* func threw on the first call and was applied again, returning, on the
\* second.
C6Witness ==
  /\ Len(onceCalls) >= 2
  /\ onceCalls[1].fkind = "throw"
  /\ onceCalls[2].invoked
  /\ onceCalls[2].fkind = "return"
  /\ alreadyCalled

\* ---- _.memoize
MemoKeys == {ToKey(a) : a \in MemoArgs}

CallsFor(key) == {i \in 1..Len(memoCalls) : memoCalls[i].key = key}

InvokedFor(key) == {i \in CallsFor(key) : memoCalls[i].invoked}

NoMemoThrow == \A i \in 1..Len(memoCalls) : memoCalls[i].fkind # "throw"

\* The key could be read from the table (as an own or an inherited
\* property) when call i was made.
PresentAt(i) == memoCalls[i].had \/ memoCalls[i].key \in ProtoKeys

\* C7: func is applied exactly once per distinct key: a call with a key
\* that is not in the table applies func and stores the result, a call with
\* a key that is in the table returns the stored result without applying
\* func; a stored entry is never recomputed.
C7MemoOncePerKey ==
  NoMemoThrow =>
    /\ \A i \in 1..Len(memoCalls) :
         IF PresentAt(i)
           THEN ~memoCalls[i].invoked
           ELSE memoCalls[i].invoked /\ memoCalls[i].key \in DOMAIN results
    /\ \A key \in MemoKeys : Cardinality(InvokedFor(key)) <= 1

\* func returned a falsy value for the key at least once and never a truthy
\* one.
OnlyFalsyFor(key) ==
  /\ \E i \in InvokedFor(key) :
       memoCalls[i].fkind = "return" /\ ~Truthy(memoCalls[i].fval)
  /\ \A i \in InvokedFor(key) :
       memoCalls[i].fkind = "return" => ~Truthy(memoCalls[i].fval)

C9Inv ==
  /\ \A i \in 1..Len(delayRuns) :
       /\ delayRuns[i].id \in 1..Len(delayCalls)
       /\ delayRuns[i].at >= delayCalls[delayRuns[i].id].at
                               + delayCalls[delayRuns[i].id].wait
       /\ delayRuns[i].args = delayCalls[delayRuns[i].id].args
  /\ \A id \in 1..Len(delayCalls) :
       Cardinality({i \in 1..Len(delayRuns) : delayRuns[i].id = id})
         + Cardinality({t \in dTimers : t.id = id}) = 1

\* C9: _.delay applies func in no step of its own; each call schedules
\* exactly one application of func, which runs no earlier than wait after
\* the call, with exactly the arguments given after wait, in their order;
\* a scheduled application stays pending until it runs.
C9Delay ==
  /\ [](C9Inv)
  /\ [][Len(delayCalls') > Len(delayCalls) => delayRuns' = delayRuns]_vars

\* A call with two arguments and a positive wait has run, and another is
\* still pending.
C9Witness ==
  /\ \E i \in 1..Len(delayRuns) :
       /\ delayRuns[i].args = <<"a", "b">>
       /\ delayCalls[delayRuns[i].id].wait > 0
  /\ dTimers # {}

\* ---- _.throttle
\* C1: any two executions of func, immediate or trailing, are at least
\* wait apart.
C1AtMostOncePerWindow ==
  \A i, j \in 1..Len(tExec) :
    i < j => tExec[j].at - tExec[i].at >= wait

\* C2: a trailing execution applies func to the argument list of the call
\* that scheduled it, the most recent call of its cooldown window.
C2TrailingArgs ==
  \A i \in 1..Len(tExec) :
    tExec[i].how = "trailing" => tExec[i].args = tCalls[tExec[i].call].args

\* C3: a call that executed func immediately returns what func returned;
\* a call that only scheduled a trailing execution returns undefined.
C3ReturnValue ==
  \A i \in 1..Len(tCalls) :
    /\ (tCalls[i].executed /\ tCalls[i].fkind = "return")
         => tCalls[i].kind = "return" /\ tCalls[i].val = tCalls[i].fval
    /\ ~tCalls[i].executed
         => tCalls[i].kind = "return" /\ tCalls[i].val = Undefined

\* C4: at most one timer of the wrapper is pending, and it is the one the
\* variable timer names: setting a timer clears the one set before.
C4OnePendingTimer ==
  /\ Cardinality(tTimers) <= 1
  /\ \A t \in tTimers : t.h = timer

\* A pending timer was cleared and replaced by the one now pending.
C4Witness ==
  /\ cancelled >= 1
  /\ Cardinality(tTimers) = 1

\* C10: when the wrapper is called exactly twice, the second call inside
\* the cooldown of the first, the first call executes func, the second
\* does not, one trailing execution follows once the timer has fired, and
\* func is executed twice in all.
C10TwoCalls ==
  ( /\ Len(tCalls) = 2
    /\ tCalls[2].at < tCalls[1].at + wait )
  => /\ tCalls[1].executed
     /\ ~tCalls[2].executed
     /\ Len(tExec) <= 2
     /\ Cardinality({i \in 1..Len(tExec) : tExec[i].how = "trailing"}) <= 1
     /\ tTimers = {} => Len(tExec) = 2
====
